---- MODULE Spec2Model ----
(***************************************************************************)
(* The heritage-archive search agent: the search-refinement middleware     *)
(* (SearchRefinementMiddleware.wrap_tool_call and _evaluate_results of     *)
(* AGENT_REDESIGN_PLAN.md), the agent workflow that drives it, the         *)
(* SearchResponse the endpoint returns and the reply the chat panel        *)
(* (ChatPanelV2.tsx handleSend) appends for it.                            *)
(*                                                                         *)
(* Similarities are hundredths: 40 stands for 0.40.                        *)
(***************************************************************************)
EXTENDS Integers, Sequences, FiniteSets, TLC

\* ------------------------------------------------------------------------
\* Bounds of the model
\* ------------------------------------------------------------------------
MaxTurns == 2        \* turns of one run
MaxLen == 2          \* longest result list the search tool returns
MaxOtherCalls == 1   \* calls of a tool other than the search tool
MaxSends == 2        \* search requests the chat panel issues in one run
MaxClock == 3        \* milliseconds the clock advances in one run
MaxFiles == 1        \* files attached at a time
MaxMounts == 2       \* times the chat panel is unmounted in one run
MaxOps == 3          \* delete, add and save operations started in one run
MaxSubmits == 2      \* submits of the add-archive form in one run
MaxGenerations == 2  \* metadata generations started in one run

\* ------------------------------------------------------------------------
\* Configuration and fixed strings of the program
\* ------------------------------------------------------------------------
max_attempts == 3
min_similarity_threshold == 40

HERITAGE_SEARCH == "HERITAGE_SEARCH"
UNCLEAR == "UNCLEAR"
UNRELATED == "UNRELATED"
GREETING == "GREETING"
Intents == {HERITAGE_SEARCH, UNCLEAR, UNRELATED, GREETING}
\* the classification step may also come to no category
INCONCLUSIVE == "INCONCLUSIVE"
Classifications == Intents \cup {INCONCLUSIVE}

UnclearText == "Could you please provide more details about what heritage materials you're looking for? For example, you could specify a type (batik, crafts, architecture), location, or time period."
UnrelatedText == "I can only help you search for heritage archive materials such as traditional crafts, cultural artifacts, historical documents, and cultural media. How can I assist you with heritage materials today?"
GreetingText == "Hello! I'm here to help you search our heritage archive. What cultural materials or historical items would you like to explore?"
ExhaustedText == "I couldn't find relevant heritage materials matching your query. Try describing what you're looking for in different words, or browse our collection for inspiration."

CannedMessage(i) ==
    CASE i = UNCLEAR -> UnclearText
      [] i = UNRELATED -> UnrelatedText
      [] i = GREETING -> GreetingText
      [] OTHER -> ExhaustedText

\* null / None
Null == "null"

\* ------------------------------------------------------------------------
\* Inputs: utterances, the query strings the agent can generate, and what
\* the search tool can hand back
\* ------------------------------------------------------------------------
Utterances == {"hello", "batik"}
Queries == {"q1", "q2", "q3"}

\* An archive is a dict; its "similarity" key may be missing.
Similarities == {39, 40, 41}
Archives == {[id |-> 1]} \cup {[id |-> 1, similarity |-> s] : s \in Similarities}

RECURSIVE SeqsUpTo(_, _)
SeqsUpTo(S, n) ==
    IF n = 0 THEN {<<>>}
    ELSE LET shorter == SeqsUpTo(S, n - 1)
         IN  shorter \cup {Append(t, a) : t \in {u \in shorter : Len(u) = n - 1}, a \in S}

ArchiveLists == SeqsUpTo(Archives, MaxLen)

\* What handler(request) does: it returns the tool's tuple
\* (formatted_string, archives_list), returns something that is no tuple,
\* or raises (timeout, transport failure).
TupleResults == {[shape |-> "tuple", archives |-> l] : l \in ArchiveLists}
MalformedResult == [shape |-> "other", archives |-> <<>>]
RaisedResult == [shape |-> "raise", archives |-> <<>>]
\* tools: the one the middleware intercepts and any other
SearchTool == "search_archives_db"
OtherTool == "other_tool"
OtherToolResults == {[shape |-> "text", archives |-> <<>>], RaisedResult}
ReturningResults == TupleResults \cup {MalformedResult}
HandlerResults == ReturningResults \cup {RaisedResult}
NoResult == [shape |-> "none", archives |-> <<>>]

\* ------------------------------------------------------------------------
\* State
\* ------------------------------------------------------------------------
VARIABLES
    \* SearchRefinementState, kept by the checkpointer per conversation thread
    search_attempt_count,
    original_user_query,
    previous_queries_tried,
    best_results,
    \* the turn in progress
    pc,
    turn,
    utterance,
    classification,       \* what the classification step came to
    intent,
    toolQuery,            \* request.tool_call["args"]["query"] of the pending call
    current_query,        \* the query of the latest attempt
    result,               \* what handler(request) gave on the latest attempt
    results_good_enough,  \* _evaluate_results of the latest attempt
    outcome,              \* what wrap_tool_call returned on the latest attempt
    response,             \* the endpoint's answer to the caller
    reply,                \* the assistant message handleSend appends
    \* per-turn history
    turnSearches,         \* handler(request) invocations of this turn
    turnRefines,          \* refinement requests returned in this turn
    turnGenerations,      \* queries the model wrote in this turn
    turnClassifications,  \* intent classifications of this turn
    events,               \* what search_stream() has emitted in this turn
    \* the caller's side of the turn
    aborted,              \* the caller has given up the turn
    callsAtAbort,         \* external calls of the turn made before it did
    \* tool calls the middleware does not intercept
    otherCalls,           \* how many there were
    handled,              \* what handler(request) gave on the latest one
    passed,               \* what wrap_tool_call returned on the latest one
    \* App.tsx and ChatPanelV2.tsx
    currentView,          \* App: the view shown
    messages,             \* App: the chat transcript
    input,                \* ChatPanel: the text field
    selectedFiles,        \* ChatPanel: how many files are attached
    isTyping,             \* ChatPanel: a reply is awaited
    mounts,               \* how often the ChatPanel has been unmounted
    requests,             \* the aiSearchArchives calls made so far
    clock,                \* Date.now()
    \* App.tsx and CuratorDashboard.tsx
    appArchives,          \* App: archives, the items shown
    ops,                  \* delete / add / save calls that are awaited
    started,              \* how many of them were started
    deleted,              \* ids whose deleteArchive call succeeded
    added,                \* ids whose createArchive call succeeded
    \* CuratorDashboard.tsx and ArchiveDetailModal
    detailOpen,           \* CuratorDashboard: the detail modal is shown
    selectedItem,         \* CuratorDashboard: the modal's item prop
    initialEditMode,      \* CuratorDashboard isEditMode: the modal's initialEditMode prop
    isEditMode,           \* ArchiveDetailModal: edit mode
    editedItem,           \* ArchiveDetailModal: the item as edited
    \* AddArchiveModal.tsx
    formFiles,            \* selectedFiles of the form
    formData,             \* title, tags and description of the form
    metadataGenerated,
    isGeneratingMetadata,
    generations,          \* generateMetadata calls that are awaited
    generationsStarted,
    isUploading,
    uploadProgress,
    timers,               \* progress intervals that are still set
    upload,               \* the createArchive call that is awaited, if any
    submits               \* how many submits went through to createArchive

sessionVars == <<search_attempt_count, original_user_query, previous_queries_tried, best_results>>
turnVars == <<pc, turn, utterance, classification, intent, toolQuery>>
attemptVars == <<current_query, result, results_good_enough, outcome>>
replyVars == <<response, reply>>
callVars == <<turnSearches, turnRefines, turnGenerations, turnClassifications>>
historyVars == <<callVars, events>>
abortVars == <<aborted, callsAtAbort>>
toolVars == <<otherCalls, handled, passed>>
chatVars == <<currentView, messages, input, selectedFiles, isTyping, mounts, requests, clock>>
dashVars == <<appArchives, ops, started, deleted, added>>
modalVars == <<detailOpen, selectedItem, initialEditMode, isEditMode, editedItem>>
metadataVars == <<formFiles, formData, metadataGenerated, isGeneratingMetadata,
                  generations, generationsStarted>>
uploadVars == <<isUploading, uploadProgress, timers, upload, submits>>
formVars == <<metadataVars, uploadVars>>
uiVars == <<chatVars, dashVars, modalVars, formVars>>
vars == <<sessionVars, turnVars, attemptVars, replyVars, historyVars, abortVars, toolVars, uiVars>>

Terminal == {"TERMINAL_MESSAGE", "DONE", "EXHAUSTED", "FAILED"}
NoMessage == [found |-> 0, previous_queries |-> <<>>, original_query |-> Null]
NoItem == [id |-> Null, title |-> Null]
NoOutcome == [kind |-> "none", result |-> NoResult, message |-> NoMessage]
NoResponse == [channel |-> "none", response_type |-> Null, archives |-> <<>>,
               total |-> 0, query |-> Null, message |-> Null]
NoReply == [role |-> "none", content |-> <<>>, archiveResults |-> <<>>]

\* ------------------------------------------------------------------------
\* SearchRefinementMiddleware._evaluate_results
\* ------------------------------------------------------------------------
\* archive.get("similarity", 0)
GetSimilarity(archive) ==
    IF "similarity" \in DOMAIN archive THEN archive.similarity ELSE 0

\* a strict comparison in place of >=
GoodMatchStrict(archive) == GetSimilarity(archive) > min_similarity_threshold

GoodMatch(archive) == GetSimilarity(archive) >= min_similarity_threshold

\* any(... for archive in archives)
RECURSIVE AnyGoodMatch(_)
AnyGoodMatch(archives) ==
    IF archives = <<>> THEN FALSE
    ELSE GoodMatch(Head(archives)) \/ AnyGoodMatch(Tail(archives))

evaluate_results(archives) ==
    IF Len(archives) = 0 THEN FALSE ELSE AnyGoodMatch(archives)

\* ------------------------------------------------------------------------
\* SearchRefinementMiddleware.wrap_tool_call
\* ------------------------------------------------------------------------
\* a try/except around handler(request) that swallows the failure, so that
\* the attempt goes on with the fallback archives = []
PropagatesSwallowed(r) == FALSE

\* handler(request) raised: wrap_tool_call has no try/except around it
Propagates(r) == r.shape = "raise"

\* isinstance(result, tuple) ... else archives = []
ParseArchives(r) == IF r.shape = "tuple" THEN r.archives ELSE <<>>

\* the attempt limit compared with > in place of >=
ReturnsResultLate(good, attempt_count) == good \/ attempt_count + 1 > max_attempts

\* results_good_enough or attempt_count + 1 >= self.max_attempts
ReturnsResult(good, attempt_count) == good \/ attempt_count + 1 >= max_attempts

\* the query stored as original_user_query before the tool runs
StoredOriginal(attempt_count, original_query, q) ==
    IF attempt_count = 0 THEN q ELSE original_query

\* an event emitted twice
EmitTwice(ev) == events' = events \o <<ev, ev>>

\* search_stream() emits one event
Emit(ev) == events' = Append(events, ev)

\* previous_queries.append(current_query), skipped for a query already there
TrackQueryOnce(previous_queries, query) ==
    IF \E k \in DOMAIN previous_queries : previous_queries[k] = query
    THEN previous_queries
    ELSE Append(previous_queries, query)

\* previous_queries.append(current_query)
TrackQuery(previous_queries, query) == Append(previous_queries, query)

\* the refinement request built from the list as it was before the append
RefinementMessageStale(archives, previous_queries, original_query) ==
    [found |-> Len(archives),
     previous_queries |-> SubSeq(previous_queries, 1, Len(previous_queries) - 1),
     original_query |-> original_query]

\* The ToolMessage that asks for a refined query: "Search found
\* {len(archives)} results ... Previous queries tried: {previous_queries}.
\* Please analyze the original intent '{original_query}' ..."
RefinementMessage(archives, previous_queries, original_query) ==
    [found |-> Len(archives),
     previous_queries |-> previous_queries,
     original_query |-> original_query]

wrap_search_call(r) ==
    /\ pc = "SEARCHING"
    /\ toolQuery # Null
    /\ LET attempt_count == search_attempt_count
           archives == ParseArchives(r)
           good == evaluate_results(archives)
       IN  /\ original_user_query' = StoredOriginal(attempt_count, original_user_query, toolQuery)
           /\ turnSearches' = turnSearches + 1
           /\ Emit("search_attempt")
           /\ result' = r
           /\ current_query' = toolQuery
           /\ toolQuery' = Null
           /\ IF Propagates(r)
              THEN /\ pc' = "FAILED"
                   /\ outcome' = [kind |-> "raise", result |-> r, message |-> NoMessage]
                   /\ UNCHANGED <<search_attempt_count, previous_queries_tried,
                                  results_good_enough, turnRefines>>
              ELSE /\ previous_queries_tried' = TrackQuery(previous_queries_tried, toolQuery)
                   /\ search_attempt_count' = attempt_count + 1
                   /\ results_good_enough' = good
                   /\ IF ReturnsResult(good, attempt_count)
                      THEN /\ outcome' = [kind |-> "result", result |-> r, message |-> NoMessage]
                           /\ pc' = IF good THEN "DONE" ELSE "EXHAUSTED"
                           /\ UNCHANGED turnRefines
                      ELSE /\ outcome' = [kind |-> "tool_message", result |-> NoResult,
                                          message |-> RefinementMessage(archives,
                                                          previous_queries_tried',
                                                          original_user_query')]
                           /\ pc' = "REFINING"
                           /\ turnRefines' = turnRefines + 1
    /\ UNCHANGED <<best_results, turn, utterance, classification, intent, replyVars,
                   turnGenerations, turnClassifications, abortVars, uiVars>>

\* return handler(request): a call of another tool goes to its handler and
\* comes back as it is; a handler that raises ends the turn.
pass_tool_call(r) ==
    /\ pc \in {"SEARCHING", "REFINING"}
    /\ IF Propagates(r)
       THEN /\ pc' = "FAILED"
            /\ outcome' = [kind |-> "raise", result |-> r, message |-> NoMessage]
       ELSE UNCHANGED <<pc, outcome>>
    /\ UNCHANGED <<sessionVars, turn, utterance, classification, intent, toolQuery,
                   current_query, result, results_good_enough, replyVars,
                   historyVars, abortVars, uiVars>>

\* every tool call taken for a search
InterceptsAny(name) == TRUE

\* request.tool_call.get("name") != "search_archives_db" is not intercepted
Intercepts(name) == name = SearchTool

\* What the middleware returned for a call: the handler's value, or nothing
\* of the handler's when it answered with a refinement request.
Returned(r, out) == IF Propagates(r) \/ out.kind = "result" THEN r ELSE NoResult

wrap_tool_call(name, r) ==
    /\ IF Intercepts(name) THEN wrap_search_call(r) ELSE pass_tool_call(r)
    /\ IF name = SearchTool
       THEN UNCHANGED toolVars
       ELSE /\ otherCalls < MaxOtherCalls
            /\ otherCalls' = otherCalls + 1
            /\ handled' = r
            /\ passed' = IF Intercepts(name) THEN Returned(r, outcome') ELSE r

\* ------------------------------------------------------------------------
\* The agent workflow (system prompt): classify, generate ONE query, call
\* the tool, on a refinement request generate another query and call again
\* ------------------------------------------------------------------------
FreshSession ==
    /\ search_attempt_count' = 0
    /\ original_user_query' = Null
    /\ previous_queries_tried' = <<>>
    /\ best_results' = <<>>

\* A request arrives: with the thread_id of the conversation so far (the
\* checkpointer hands the agent that thread's state) or with a new one.
StartTurn(u, sameThread) ==
    /\ \/ pc = "IDLE"
       \/ pc \in Terminal /\ reply # NoReply
    /\ turn < MaxTurns
    /\ turn' = turn + 1
    /\ utterance' = u
    /\ pc' = "CLASSIFYING"
    /\ classification' = Null
    /\ intent' = Null
    /\ toolQuery' = Null
    /\ IF sameThread THEN UNCHANGED sessionVars ELSE FreshSession
    /\ current_query' = Null
    /\ result' = NoResult
    /\ results_good_enough' = FALSE
    /\ outcome' = NoOutcome
    /\ response' = NoResponse
    /\ reply' = NoReply
    /\ turnSearches' = 0
    /\ turnRefines' = 0
    /\ turnGenerations' = 0
    /\ turnClassifications' = 0
    /\ events' = <<>>
    /\ aborted' = FALSE
    /\ callsAtAbort' = 0
    /\ UNCHANGED <<toolVars, uiVars>>

\* an inconclusive classification kept as the intent
ClassifiedIntentRaw(c) == c

\* The intent of the turn: an inconclusive classification counts as UNCLEAR.
ClassifiedIntent(c) == IF c = INCONCLUSIVE THEN UNCLEAR ELSE c

Classify(c) ==
    /\ pc = "CLASSIFYING"
    /\ classification' = c
    /\ intent' = ClassifiedIntent(c)
    /\ pc' = IF intent' = HERITAGE_SEARCH THEN "SEARCHING" ELSE "TERMINAL_MESSAGE"
    /\ turnClassifications' = turnClassifications + 1
    /\ Emit("intent_classified")
    /\ UNCHANGED <<sessionVars, turn, utterance, toolQuery, attemptVars, replyVars,
                   turnSearches, turnRefines, turnGenerations, abortVars, toolVars,
                   uiVars>>

\* the model rewrites the query of a call it has not made yet
MayGenerateAgain ==
    \/ pc = "SEARCHING"
    \/ pc = "REFINING"

\* Workflow steps 3 and 4: a query is written once for the first search and
\* once after each request for refinement.
MayGenerate ==
    \/ pc = "SEARCHING" /\ toolQuery = Null
    \/ pc = "REFINING"

\* The model writes the query of its next search_archives_db call.
Generate(q) ==
    /\ MayGenerate
    /\ toolQuery' = q
    /\ pc' = "SEARCHING"
    /\ turnGenerations' = turnGenerations + 1
    /\ UNCHANGED <<sessionVars, turn, utterance, classification, intent, attemptVars,
                   replyVars,
                   turnSearches, turnRefines, turnClassifications, events, abortVars, toolVars, uiVars>>

\* ------------------------------------------------------------------------
\* The endpoint's SearchResponse
\* ------------------------------------------------------------------------
MessageResponse(u, text) ==
    [channel |-> "ok", response_type |-> "message", archives |-> <<>>,
     total |-> 0, query |-> u, message |-> text]

ResultsResponse(u, archives) ==
    [channel |-> "ok", response_type |-> "results", archives |-> archives,
     total |-> Len(archives), query |-> u, message |-> Null]

\* The failure channel: aiSearchArchives throws; message is the thrown
\* Error's message, or null when the thrown value is no Error.
ErrorTexts == {Null, "Internal Server Error"}

ErrorResponse(u, e) ==
    [channel |-> "error", response_type |-> Null, archives |-> <<>>,
     total |-> 0, query |-> u, message |-> e]

\* an empty result list sent as "results"
FormatResponseNoCollapse(state, i, out, u, e) ==
    CASE state = "TERMINAL_MESSAGE" -> MessageResponse(u, CannedMessage(i))
      [] state = "FAILED" -> ErrorResponse(u, e)
      [] out.result.shape # "tuple" -> ErrorResponse(u, e)
      [] OTHER -> ResultsResponse(u, out.result.archives)

FormatResponse(state, i, out, u, e) ==
    CASE state = "TERMINAL_MESSAGE" -> MessageResponse(u, CannedMessage(i))
      [] state = "FAILED" -> ErrorResponse(u, e)
      [] out.result.shape # "tuple" -> ErrorResponse(u, e)
      [] Len(out.result.archives) = 0 -> MessageResponse(u, ExhaustedText)
      [] OTHER -> ResultsResponse(u, out.result.archives)

Respond ==
    /\ pc \in Terminal
    /\ response = NoResponse
    /\ \E e \in ErrorTexts : response' = FormatResponse(pc, intent, outcome, utterance, e)
    /\ IF response'.channel = "ok"
       THEN Emit(response'.response_type)
       ELSE UNCHANGED events
    /\ UNCHANGED <<sessionVars, turnVars, attemptVars, reply, callVars, abortVars, toolVars, uiVars>>

\* ------------------------------------------------------------------------
\* ChatPanelV2.tsx handleSend: the assistant message for the response
\* ------------------------------------------------------------------------
\* A message's content is the sequence of the pieces it is built from; the
\* empty string is the empty sequence.
Text(str) == IF str = "" THEN <<>> ELSE <<str>>

\* value || fallback
OrElse(value, fallback) == IF value = Null \/ value = "" THEN fallback ELSE value

\* error instanceof Error ? error.message : 'Unknown error'
ErrorMessageOf(resp) == IF resp.message = Null THEN "Unknown error" ELSE resp.message

\* result.archives.map(...): the ArchiveItem shown for an archive
ToArchiveItem(archive) == [id |-> archive.id]

AssistantMessage(resp) ==
    IF resp.channel = "error"
    THEN [role |-> "assistant",
          content |-> <<"Sorry, search failed: ", ErrorMessageOf(resp), ". Please try again.">>,
          archiveResults |-> <<>>]
    ELSE IF resp.response_type = "message"
         THEN [role |-> "assistant",
               content |-> Text(OrElse(resp.message, "I can help you search our heritage archive.")),
               archiveResults |-> <<>>]
         ELSE [role |-> "assistant",
               content |-> Text(OrElse(resp.message, "")),
               archiveResults |-> [k \in DOMAIN resp.archives |-> ToArchiveItem(resp.archives[k])]]

HandleReply ==
    /\ response # NoResponse
    /\ reply = NoReply
    /\ reply' = AssistantMessage(response)
    /\ UNCHANGED <<sessionVars, turnVars, attemptVars, response, historyVars, abortVars, toolVars, uiVars>>

\* ------------------------------------------------------------------------
\* App.tsx and ChatPanelV2.tsx: the chat panel as the user drives it
\* ------------------------------------------------------------------------
ViewModes == {"chat", "dashboard", "settings"}
Inputs == {"", " ", "batik"}
QuickQueries == {"batik"}
ReplyKinds == {"message", "results", "throw"}

\* the welcome message App starts the transcript with, id '1'
WelcomeMessage == [id |-> 1, role |-> "assistant", kind |-> "message"]

\* Date.now() when the run starts, later than the welcome message's id
StartClock == 2

\* input.trim()
Trim(t) == IF t = " " THEN "" ELSE t

\* Date.now() moves on
Tick ==
    /\ clock < StartClock + MaxClock
    /\ clock' = clock + 1
    /\ UNCHANGED <<currentView, messages, input, selectedFiles, isTyping, mounts, requests>>

\* onChange of the Input, which is disabled while isTyping
TypeInput(t) ==
    /\ currentView = "chat"
    /\ ~isTyping
    /\ t # input
    /\ input' = t
    /\ UNCHANGED <<currentView, messages, selectedFiles, isTyping, mounts, requests, clock>>

\* handleFileSelect: the paperclip button is never disabled
AttachFile ==
    /\ currentView = "chat"
    /\ selectedFiles < MaxFiles
    /\ selectedFiles' = selectedFiles + 1
    /\ UNCHANGED <<currentView, messages, input, isTyping, mounts, requests, clock>>

\* What a call started now is: its query, the panel instance that made
\* it, and whether it is still awaited.
NewRequest(q) == [query |-> q, mount |-> mounts, pending |-> TRUE]

\* the requests that are in flight
InFlight == {k \in DOMAIN requests : requests[k].pending}

handleSend ==
    LET queryText == Trim(input)
    IN  IF queryText = "" /\ selectedFiles = 0
        THEN UNCHANGED chatVars
        ELSE /\ Len(requests) < MaxSends
             /\ input' = ""
             /\ selectedFiles' = 0
             /\ messages' = Append(messages, [id |-> clock, role |-> "user", kind |-> "user"])
             /\ isTyping' = TRUE
             /\ requests' = Append(requests, NewRequest(queryText))
             /\ UNCHANGED <<currentView, mounts, clock>>

\* disabled={(!input.trim() && selectedFiles.length === 0) || isTyping}
SendEnabled == ~((Trim(input) = "" /\ selectedFiles = 0) \/ isTyping)

ClickSend ==
    /\ currentView = "chat"
    /\ SendEnabled
    /\ handleSend

\* handleKeyDown: Enter in the Input, which is disabled while isTyping
PressEnter ==
    /\ currentView = "chat"
    /\ ~isTyping
    /\ handleSend

\* QuickSearchButtons onSearch, offered while the transcript holds the
\* welcome message only
QuickSearch(q) ==
    /\ currentView = "chat"
    /\ Len(messages) = 1
    /\ Len(requests) < MaxSends
    /\ input' = ""
    /\ messages' = Append(messages, [id |-> clock, role |-> "user", kind |-> "user"])
    /\ isTyping' = TRUE
    /\ requests' = Append(requests, NewRequest(q))
    /\ UNCHANGED <<currentView, selectedFiles, mounts, clock>>

\* The awaited call of request k resolves or rejects: one assistant message
\* is appended, and finally setIsTyping(false) acts on the panel instance
\* that made the call, if it is still mounted.
ReplyArrives(k, kind) ==
    /\ k \in InFlight
    /\ messages' = Append(messages, [id |-> clock + 1, role |-> "assistant", kind |-> kind])
    /\ requests' = [requests EXCEPT ![k].pending = FALSE]
    /\ isTyping' = IF requests[k].mount = mounts /\ currentView = "chat"
                   THEN FALSE
                   ELSE isTyping
    /\ UNCHANGED <<currentView, input, selectedFiles, mounts, clock>>

\* Sidebar onViewChange: App renders the ChatPanel only in the chat view, so
\* leaving it drops the panel's own state and coming back starts a new panel.
SwitchView(v) ==
    /\ v # currentView
    /\ currentView' = v
    /\ IF currentView = "chat"
       THEN /\ mounts < MaxMounts
            /\ mounts' = mounts + 1
            /\ input' = ""
            /\ selectedFiles' = 0
            /\ isTyping' = FALSE
       ELSE UNCHANGED <<mounts, input, selectedFiles, isTyping>>
    /\ UNCHANGED <<messages, requests, clock>>

\* ------------------------------------------------------------------------
\* CuratorDashboard.tsx: delete, add and save on the archives list
\* ------------------------------------------------------------------------
Titles == {"t0", "t1"}
LoadedIds == {"a1", "a2"}
NewIds == {"n1"}
Item(i, t) == [id |-> i, title |-> t]

\* the archives fetched when the App starts
InitialArchives == {Item(i, "t0") : i \in LoadedIds}

Ids(items) == {a.id : a \in items}

\* An operation started now: the handler keeps the archives of the render
\* it was created in for the whole call.
NewOp(kind, item) ==
    [n |-> started + 1, kind |-> kind, item |-> item, snapshot |-> appArchives]

StartOp(kind, item) ==
    /\ started < MaxOps
    /\ started' = started + 1
    /\ ops' = ops \cup {NewOp(kind, item)}
    /\ UNCHANGED <<appArchives, deleted, added>>

\* ArchiveCard onDelete={handleDeleteArchive}
ClickDelete(a) ==
    /\ a \in appArchives
    /\ StartOp("delete", a)

\* AddArchiveModal handleSubmit, which calls onAdd when createArchive is back
SubmitAdd(i) ==
    /\ i \notin Ids(appArchives) \cup added \cup {o.item.id : o \in ops}
    /\ StartOp("add", Item(i, "t0"))

\* ArchiveDetailModal handleSave, which calls onSave when updateArchive is back
ClickSave(a, t) ==
    /\ a \in appArchives
    /\ StartOp("save", Item(a.id, t))

\* setArchives(archives.filter(...)), setArchives([newItem, ...archives]),
\* setArchives(archives.map(...)): each on the archives the handler kept
Applied(op) ==
    CASE op.kind = "delete" -> {a \in op.snapshot : a.id # op.item.id}
      [] op.kind = "add" -> {op.item} \cup op.snapshot
      [] op.kind = "save" -> {IF a.id = op.item.id THEN op.item ELSE a : a \in op.snapshot}

\* The awaited backend call of an operation is back. A call that failed is
\* reported and changes nothing.
OpReturns(op, ok) ==
    /\ op \in ops
    /\ ops' = ops \ {op}
    /\ IF ok
       THEN /\ appArchives' = Applied(op)
            /\ deleted' = IF op.kind = "delete" THEN deleted \cup {op.item.id} ELSE deleted
            /\ added' = IF op.kind = "add" THEN added \cup {op.item.id} ELSE added
       ELSE UNCHANGED <<appArchives, deleted, added>>
    /\ UNCHANGED started

\* ------------------------------------------------------------------------
\* ArchiveDetailModal, opened from the dashboard's cards
\* ------------------------------------------------------------------------
\* useEffect(() => setIsEditMode(initialEditMode), [initialEditMode]): runs
\* when the prop has changed
EditModeAfterRender(newInitial) ==
    IF newInitial # initialEditMode THEN newInitial ELSE isEditMode

\* useEffect(() => { if (item) setEditedItem({ ...item }) }, [item]): runs
\* when the prop has changed
EditedItemAfterRender(newItem) ==
    IF newItem # selectedItem THEN newItem ELSE editedItem

\* onView / onEdit of a card: setSelectedItem(it); setIsEditMode(edit);
\* setDetailOpen(true), and the modal's effects of the render that follows
OpenDetail(it, edit) ==
    /\ ~detailOpen
    /\ it \in appArchives
    /\ selectedItem' = it
    /\ initialEditMode' = edit
    /\ detailOpen' = TRUE
    /\ isEditMode' = EditModeAfterRender(edit)
    /\ editedItem' = EditedItemAfterRender(it)
    /\ UNCHANGED dashVars

\* the modal's Edit button: setIsEditMode(true)
PressEdit ==
    /\ detailOpen
    /\ ~isEditMode
    /\ isEditMode' = TRUE
    /\ UNCHANGED <<dashVars, detailOpen, selectedItem, initialEditMode, editedItem>>

\* a field of the form is changed
EditTitle(t) ==
    /\ detailOpen
    /\ isEditMode
    /\ t # editedItem.title
    /\ editedItem' = [editedItem EXCEPT !.title = t]
    /\ UNCHANGED <<dashVars, detailOpen, selectedItem, initialEditMode, isEditMode>>

handleCancel ==
    /\ detailOpen
    /\ isEditMode
    /\ editedItem' = selectedItem
    /\ isEditMode' = FALSE
    /\ UNCHANGED <<dashVars, detailOpen, selectedItem, initialEditMode>>

\* handleSave with updateArchive succeeding while the modal stays as it is:
\* setEditedItem(updatedItem); onSave(updatedItem); setIsEditMode(false)
handleSave ==
    /\ detailOpen
    /\ isEditMode
    /\ appArchives' = {IF a.id = editedItem.id THEN editedItem ELSE a : a \in appArchives}
    /\ selectedItem' = editedItem
    /\ isEditMode' = FALSE
    /\ UNCHANGED <<ops, started, deleted, added, detailOpen, initialEditMode, editedItem>>

\* onClose={() => setDetailOpen(false)}: the modal stays mounted
CloseDetail ==
    /\ detailOpen
    /\ detailOpen' = FALSE
    /\ UNCHANGED <<dashVars, selectedItem, initialEditMode, isEditMode, editedItem>>

ModalNext ==
    \/ \E it \in appArchives, edit \in BOOLEAN : OpenDetail(it, edit)
    \/ PressEdit
    \/ \E t \in Titles : EditTitle(t)
    \/ handleCancel
    \/ handleSave
    \/ CloseDetail

\* ------------------------------------------------------------------------
\* AddArchiveModal.tsx: file selection, metadata generation and submit
\* ------------------------------------------------------------------------
FileLists == {<<"f1">>, <<"f2">>, <<"f1", "f2">>}
EmptyForm == [title |-> "", tags |-> <<>>, description |-> <<>>]
NoUpload == 0

\* What generateMetadata gives for a list of files; tags and description
\* stand for the text derived from those files.
Metadata(files) == [title |-> "generated", tags |-> files, description |-> files]

\* prev.filter((_, i) => i !== index)
WithoutIndex(files, index) ==
    SubSeq(files, 1, index - 1) \o SubSeq(files, index + 1, Len(files))

\* handleFileSelect: the chosen files replace the selection and
\* handleGenerateMetadata(filesArray) starts
handleFileSelect(files) ==
    /\ generationsStarted < MaxGenerations
    /\ formFiles' = files
    /\ metadataGenerated' = FALSE
    /\ isGeneratingMetadata' = TRUE
    /\ generationsStarted' = generationsStarted + 1
    /\ generations' = generations \cup {[n |-> generationsStarted + 1, files |-> files]}
    /\ UNCHANGED <<formData, uploadVars>>

removeFile(index) ==
    /\ index \in DOMAIN formFiles
    /\ formFiles' = WithoutIndex(formFiles, index)
    /\ metadataGenerated' = FALSE
    /\ UNCHANGED <<formData, isGeneratingMetadata, generations, generationsStarted,
                   uploadVars>>

\* the title input, disabled while isGeneratingMetadata
TypeTitle ==
    /\ ~isGeneratingMetadata
    /\ formData.title # "typed"
    /\ formData' = [formData EXCEPT !.title = "typed"]
    /\ UNCHANGED <<formFiles, metadataGenerated, isGeneratingMetadata, generations,
                   generationsStarted, uploadVars>>

\* handleGenerateMetadata after the await: the result is written into the
\* form, or the failure is reported; finally setIsGeneratingMetadata(false)
GenerationReturns(g, ok) ==
    /\ g \in generations
    /\ generations' = generations \ {g}
    /\ isGeneratingMetadata' = FALSE
    /\ IF ok
       THEN /\ formData' = Metadata(g.files)
            /\ metadataGenerated' = TRUE
       ELSE UNCHANGED <<formData, metadataGenerated>>
    /\ UNCHANGED <<formFiles, generationsStarted, uploadVars>>

\* handleSubmit up to the await: the submit button is disabled while
\* isUploading; a form without title or files is refused
handleSubmit ==
    /\ ~isUploading
    /\ IF formData.title = "" \/ formFiles = <<>>
       THEN UNCHANGED formVars
       ELSE /\ submits < MaxSubmits
            /\ submits' = submits + 1
            /\ isUploading' = TRUE
            /\ uploadProgress' = 0
            /\ timers' = timers \cup {submits + 1}
            /\ upload' = submits + 1
            /\ UNCHANGED metadataVars

\* the progress interval of a submit fires
TimerFires(t) ==
    /\ t \in timers
    /\ IF uploadProgress >= 90
       THEN /\ timers' = timers \ {t}
            /\ uploadProgress' = 90
       ELSE /\ uploadProgress' = uploadProgress + 10
            /\ UNCHANGED timers
    /\ UNCHANGED <<metadataVars, isUploading, upload, submits>>

\* handleSubmit after the await. createArchive resolved: the interval is
\* cleared, the item is added, the form is reset. createArchive rejected:
\* the failure is reported. Finally setIsUploading(false) and
\* setUploadProgress(0).
UploadReturns(ok) ==
    /\ upload # NoUpload
    /\ upload' = NoUpload
    /\ isUploading' = FALSE
    /\ uploadProgress' = 0
    /\ IF ok
       THEN /\ timers' = timers \ {upload}
            /\ formData' = EmptyForm
            /\ formFiles' = <<>>
            /\ metadataGenerated' = FALSE
       ELSE UNCHANGED <<timers, formData, formFiles, metadataGenerated>>
    /\ UNCHANGED <<isGeneratingMetadata, generations, generationsStarted, submits>>

FormNext ==
    \/ \E files \in FileLists : handleFileSelect(files)
    \/ \E index \in 1..2 : removeFile(index)
    \/ TypeTitle
    \/ \E g \in generations, ok \in BOOLEAN : GenerationReturns(g, ok)
    \/ handleSubmit
    \/ \E t \in timers : TimerFires(t)
    \/ \E ok \in BOOLEAN : UploadReturns(ok)

DashNext ==
    \/ \E a \in appArchives : ClickDelete(a)
    \/ \E i \in NewIds : SubmitAdd(i)
    \/ \E a \in appArchives, t \in Titles : ClickSave(a, t)
    \/ \E op \in ops, ok \in BOOLEAN : OpReturns(op, ok)

\* ------------------------------------------------------------------------
\* Specification
\* ------------------------------------------------------------------------
Init ==
    /\ search_attempt_count = 0
    /\ original_user_query = Null
    /\ previous_queries_tried = <<>>
    /\ best_results = <<>>
    /\ pc = "IDLE"
    /\ turn = 0
    /\ utterance = Null
    /\ classification = Null
    /\ intent = Null
    /\ toolQuery = Null
    /\ current_query = Null
    /\ result = NoResult
    /\ results_good_enough = FALSE
    /\ outcome = NoOutcome
    /\ response = NoResponse
    /\ reply = NoReply
    /\ turnSearches = 0
    /\ turnRefines = 0
    /\ turnGenerations = 0
    /\ turnClassifications = 0
    /\ events = <<>>
    /\ aborted = FALSE
    /\ callsAtAbort = 0
    /\ otherCalls = 0
    /\ handled = NoResult
    /\ passed = NoResult
    /\ currentView = "chat"
    /\ messages = <<WelcomeMessage>>
    /\ input = ""
    /\ selectedFiles = 0
    /\ isTyping = FALSE
    /\ mounts = 0
    /\ requests = <<>>
    /\ clock = StartClock
    /\ appArchives = InitialArchives
    /\ ops = {}
    /\ started = 0
    /\ deleted = {}
    /\ added = {}
    /\ detailOpen = FALSE
    /\ selectedItem = NoItem
    /\ initialEditMode = FALSE
    /\ isEditMode = FALSE
    /\ editedItem = NoItem
    /\ formFiles = <<>>
    /\ formData = EmptyForm
    /\ metadataGenerated = FALSE
    /\ isGeneratingMetadata = FALSE
    /\ generations = {}
    /\ generationsStarted = 0
    /\ isUploading = FALSE
    /\ uploadProgress = 0
    /\ timers = {}
    /\ upload = NoUpload
    /\ submits = 0

Next ==
    \/ \E u \in Utterances, sameThread \in BOOLEAN : StartTurn(u, sameThread)
    \/ \E c \in Classifications : Classify(c)
    \/ \E q \in Queries : Generate(q)
    \/ \E r \in HandlerResults : wrap_tool_call(SearchTool, r)
    \/ Respond
    \/ HandleReply

Spec == Init /\ [][Next]_vars

\* Every external call returns: handler(request) never raises.
NextReturning ==
    \/ \E u \in Utterances, sameThread \in BOOLEAN : StartTurn(u, sameThread)
    \/ \E c \in Classifications : Classify(c)
    \/ \E q \in Queries : Generate(q)
    \/ \E r \in ReturningResults : wrap_tool_call(SearchTool, r)
    \/ Respond
    \/ HandleReply

\* The turn is one sequential pipeline that awaits each call, so a step that
\* is possible is taken.
LiveSpec ==
    /\ Init
    /\ [][NextReturning]_vars
    /\ WF_vars(\E c \in Classifications : Classify(c))
    /\ WF_vars(\E q \in Queries : Generate(q))
    /\ WF_vars(\E r \in ReturningResults : wrap_tool_call(SearchTool, r))
    /\ WF_vars(Respond)
    /\ WF_vars(HandleReply)

\* ------------------------------------------------------------------------
\* The chat panel on its own: aiSearchArchives may resolve with any
\* AISearchResponse, or throw
\* ------------------------------------------------------------------------
ResponseMessages == {Null, "", ExhaustedText}

AnyResponses(u) ==
    {[channel |-> "ok", response_type |-> t, archives |-> l, total |-> Len(l),
      query |-> u, message |-> m] :
        t \in {"results", "message"}, l \in ArchiveLists, m \in ResponseMessages}
    \cup {ErrorResponse(u, e) : e \in ErrorTexts}

\* handleSend up to the await: the user message is appended and the request
\* is on its way.
PanelSend(u) ==
    /\ \/ pc = "IDLE"
       \/ pc = "AWAITING" /\ reply # NoReply
    /\ turn < MaxTurns
    /\ turn' = turn + 1
    /\ utterance' = u
    /\ pc' = "AWAITING"
    /\ response' = NoResponse
    /\ reply' = NoReply
    /\ UNCHANGED <<sessionVars, classification, intent, toolQuery, attemptVars,
                   historyVars, abortVars, toolVars, uiVars>>

\* await aiSearchArchives(queryText) resolves or rejects
BackendReturns(resp) ==
    /\ pc = "AWAITING"
    /\ response = NoResponse
    /\ response' = resp
    /\ UNCHANGED <<sessionVars, turnVars, attemptVars, reply, historyVars, abortVars, toolVars, uiVars>>

PanelNext ==
    \/ \E u \in Utterances : PanelSend(u)
    \/ \E resp \in AnyResponses(utterance) : BackendReturns(resp)
    \/ HandleReply

PanelSpec == Init /\ [][PanelNext]_vars

\* ------------------------------------------------------------------------
\* Cancellation: the caller gives up a turn while a call is in flight
\* ------------------------------------------------------------------------
\* external calls made so far in the turn
CallsMade == turnClassifications + turnGenerations + turnSearches

\* a classification, a generation or a search is awaited
CallInFlight == pc \in {"CLASSIFYING", "SEARCHING", "REFINING"}

\* The caller disconnects. Nothing in wrap_tool_call, the agent or the
\* state reads it, so the step changes the caller's side only.
Abort ==
    /\ CallInFlight
    /\ ~aborted
    /\ aborted' = TRUE
    /\ callsAtAbort' = CallsMade
    /\ UNCHANGED <<sessionVars, turnVars, attemptVars, replyVars, historyVars,
                   toolVars, uiVars>>

NextAbort ==
    \/ Next
    \/ Abort

AbortSpec == Init /\ [][NextAbort]_vars

\* ------------------------------------------------------------------------
\* An agent that also calls a tool other than search_archives_db
\* ------------------------------------------------------------------------
NextTools ==
    \/ Next
    \/ \E r \in OtherToolResults : wrap_tool_call(OtherTool, r)

ToolSpec == Init /\ [][NextTools]_vars

\* ------------------------------------------------------------------------
\* The chat panel driven by the user, the clock and the arriving replies
\* ------------------------------------------------------------------------
backendVars == <<sessionVars, turnVars, attemptVars, replyVars, historyVars, abortVars, toolVars>>

ChatNext ==
    \/ Tick
    \/ \E t \in Inputs : TypeInput(t)
    \/ AttachFile
    \/ ClickSend
    \/ PressEnter
    \/ \E q \in QuickQueries : QuickSearch(q)
    \/ \E k \in DOMAIN requests, kind \in ReplyKinds : ReplyArrives(k, kind)
    \/ \E v \in ViewModes : SwitchView(v)

DashSpec == Init /\ [][DashNext /\ UNCHANGED <<backendVars, chatVars, modalVars, formVars>>]_vars

FormSpec == Init /\ [][FormNext /\ UNCHANGED <<backendVars, chatVars, dashVars, modalVars>>]_vars

ModalSpec == Init /\ [][ModalNext /\ UNCHANGED <<backendVars, chatVars, formVars>>]_vars

ChatSpec == Init /\ [][ChatNext /\ UNCHANGED <<backendVars, dashVars, modalVars, formVars>>]_vars

\* ------------------------------------------------------------------------
\* Properties
\* ------------------------------------------------------------------------
Evaluated == outcome.kind \in {"result", "tool_message"}

\* C1: attemptCount never exceeds maxAttempts; a 4th search never executes.
AttemptBound == search_attempt_count <= max_attempts

\* C2: when the attempt that exhausts the budget needs refinement, the
\* controller's outcome is the exhausted-retries message, and the
\* below-threshold result set is not returned to the caller as results.
ExhaustedGivesMessage ==
    pc = "EXHAUSTED" =>
        /\ outcome.kind # "result"
        /\ response # NoResponse => response = MessageResponse(utterance, ExhaustedText)

\* C3: every SearchResponse has response_type "results" exactly when its
\* archives are non-empty, exactly when its message is null.
ResponseExclusivity ==
    response.channel = "ok" =>
        /\ response.response_type \in {"results", "message"}
        /\ (response.response_type = "results") <=> (Len(response.archives) > 0)
        /\ (Len(response.archives) > 0) <=> (response.message = Null)

\* C3 witness: a turn that used up its attempts on empty result lists has
\* been answered.
EmptyExhaustedAnswered ==
    /\ pc = "EXHAUSTED"
    /\ result.shape = "tuple"
    /\ result.archives = <<>>
    /\ response.channel = "ok"

\* C4: no two entries of queriesTried are equal.
QueryNovelty ==
    \A i, j \in DOMAIN previous_queries_tried :
        i # j => previous_queries_tried[i] # previous_queries_tried[j]

\* C5: in a turn classified UNCLEAR, UNRELATED or GREETING no search runs
\* (attemptCount stays 0, queriesTried stays empty) and the answer is the
\* "message" response with the canned text of the intent.
NonSearchTurn ==
    pc = "TERMINAL_MESSAGE" =>
        /\ turnSearches = 0
        /\ search_attempt_count = 0
        /\ previous_queries_tried = <<>>
        /\ response # NoResponse => response = MessageResponse(utterance, CannedMessage(intent))

\* C6: when attempt k of a turn is its first GOOD_ENOUGH attempt, the turn
\* is DONE with exactly the items of attempt k, and attemptCount = k.
FirstGoodAttempt ==
    pc = "DONE" =>
        /\ outcome = [kind |-> "result", result |-> result, message |-> NoMessage]
        /\ turnSearches = turnRefines + 1
        /\ search_attempt_count = turnSearches
        /\ response # NoResponse => response = ResultsResponse(utterance, result.archives)

\* C7: the evaluator says GOOD_ENOUGH exactly when the result list is
\* non-empty and some item carries a similarity of at least the threshold.
EvaluatorPolicy ==
    Evaluated =>
        LET archives == IF result.shape = "tuple" THEN result.archives ELSE <<>>
        IN  results_good_enough <=>
                /\ archives # <<>>
                /\ \E k \in DOMAIN archives :
                       /\ "similarity" \in DOMAIN archives[k]
                       /\ archives[k].similarity >= min_similarity_threshold

\* C7 witness: a list whose best similarity equals the threshold was judged
\* good enough.
ThresholdItemAccepted ==
    /\ Evaluated
    /\ results_good_enough
    /\ result.archives # <<>>
    /\ \A k \in DOMAIN result.archives :
           GetSimilarity(result.archives[k]) <= min_similarity_threshold

\* C8: a failing search ends the turn with the transport error, which is
\* not the exhaustion message; nothing is refined, searched or retried
\* after it.
TransportFailureEndsTurn ==
    /\ [](result.shape = "raise" =>
            /\ pc = "FAILED"
            /\ outcome.kind = "raise"
            /\ response # NoResponse =>
                   response.channel = "error" /\ response.message # ExhaustedText
            /\ reply # NoReply =>
                   reply.content # Text(ExhaustedText) /\ reply.archiveResults = <<>>)
    /\ [][pc = "FAILED" =>
            \/ turn' # turn
            \/ /\ pc' = "FAILED"
               /\ toolQuery' = Null
               /\ UNCHANGED <<sessionVars, attemptVars, historyVars>>]_vars

\* C8 witness: the search failed on a refined attempt and the caller has
\* the error reply.
FailedAfterRefinement ==
    /\ pc = "FAILED"
    /\ turnRefines >= 1
    /\ reply # NoReply

\* C9: at the first search of every turn attemptCount = 0 and queriesTried
\* is empty.
FreshSessionPerTurn ==
    (pc \in {"CLASSIFYING", "SEARCHING"} /\ turnSearches = 0) =>
        /\ search_attempt_count = 0
        /\ previous_queries_tried = <<>>

\* C10: every turn reaches TERMINAL_MESSAGE, DONE or EXHAUSTED and stays in
\* it, and goes from REFINING back to SEARCHING at most maxAttempts - 1
\* times.
TurnTerminates ==
    /\ (pc \in {"CLASSIFYING", "SEARCHING", "REFINING"}) ~>
           (pc \in {"TERMINAL_MESSAGE", "DONE", "EXHAUSTED"})
    /\ [](turnRefines <= max_attempts - 1)
    /\ [][(pc \in Terminal) => (pc' = pc \/ turn' # turn)]_vars

\* C10 witness: a turn that looped maxAttempts - 1 times is exhausted.
LoopedToExhaustion ==
    /\ pc = "EXHAUSTED"
    /\ turnRefines = max_attempts - 1

\* C11: every assistant message appended in reply to a search call has a
\* non-empty content or a non-empty archiveResults list, whatever the call
\* returned or threw.
ReplyNeverEmpty ==
    reply.role = "assistant" => (reply.content # <<>> \/ reply.archiveResults # <<>>)

TopSimilarity(archives) ==
    IF archives = <<>>
    THEN 0
    ELSE CHOOSE s \in {GetSimilarity(archives[k]) : k \in DOMAIN archives} :
             \A k \in DOMAIN archives : s >= GetSimilarity(archives[k])

\* C15: after every attempt bestResultSet is the best result set seen so
\* far, so its top similarity is at least that of the attempt just made.
BestResultsTracked ==
    Evaluated => TopSimilarity(best_results) >= TopSimilarity(ParseArchives(result))

\* C16: an attempt whose result is not the expected tuple is handled as an
\* empty result set: it counts as an attempt, is not good enough, and when
\* it is the last attempt the caller gets the exhaustion message and never
\* the malformed value.
MalformedHandledAsEmpty ==
    (Evaluated /\ result.shape = "other") =>
        /\ ~results_good_enough
        /\ search_attempt_count >= 1
        /\ outcome.result.shape # "other"

\* C17: originalUtterance is the user's utterance of the turn from the
\* first search attempt on.
OriginalIsUtterance ==
    turnSearches >= 1 => original_user_query = utterance

SearchEvents == {k \in DOMAIN events : events[k] = "search_attempt"}
TerminalEvents == {k \in DOMAIN events : events[k] \in {"message", "results"}}

AbortStopsTurn ==
    aborted =>
        /\ CallsMade <= callsAtAbort + 1
        /\ response.channel # "ok"

\* C21: an inconclusive classification makes the intent UNCLEAR: the
\* intent is always one of the four categories, and the turn ends with the
\* UNCLEAR canned message, without a search and without an error.
InconclusiveIsUnclear ==
    /\ intent \in Intents \cup {Null}
    /\ classification = INCONCLUSIVE =>
           /\ intent = UNCLEAR
           /\ pc = "TERMINAL_MESSAGE"
           /\ turnSearches = 0
           /\ turnGenerations = 0
           /\ outcome = NoOutcome
           /\ response # NoResponse => response = MessageResponse(utterance, UnclearText)
           /\ reply # NoReply =>
                  reply.content = Text(UnclearText) /\ reply.archiveResults = <<>>

\* C21 witness: the caller has the UNCLEAR message for a turn whose
\* classification was inconclusive.
InconclusiveAnswered ==
    /\ classification = INCONCLUSIVE
    /\ reply.content = Text(UnclearText)

\* C22: a call of a tool other than search_archives_db returns what its
\* handler gave and leaves search_attempt_count, previous_queries_tried
\* and original_user_query as they were; it is not counted as a search.
OtherToolPassesThrough ==
    [][otherCalls' # otherCalls =>
          /\ passed' = handled'
          /\ UNCHANGED <<search_attempt_count, previous_queries_tried,
                         original_user_query, turnSearches>>]_vars

\* C22 witness: another tool was called between two searches and returned.
OtherToolCalledMidLoop ==
    /\ otherCalls >= 1
    /\ passed.shape = "text"
    /\ search_attempt_count = 2
    /\ turnSearches = 2

\* C23: at most one search request of the chat panel is in flight at any
\* time.
OneRequestInFlight == Cardinality(InFlight) <= 1

\* C24: after the welcome message the transcript alternates user and
\* assistant messages, one assistant message per send, and isTyping is
\* false once no reply is awaited.
TranscriptAlternates ==
    /\ \A k \in 2..Len(messages) :
           messages[k].role = IF k % 2 = 0 THEN "user" ELSE "assistant"
    /\ InFlight = {} => ~isTyping

\* C25: the messages of the transcript have pairwise distinct ids.
DistinctIds ==
    \A i, j \in DOMAIN messages : i # j => messages[i].id # messages[j].id

\* C26: no request is made with an empty query.
NonEmptyQuery ==
    \A k \in DOMAIN requests : requests[k].query # ""

\* C27: the archives list holds no item whose delete succeeded and every
\* item whose add succeeded and that was not deleted since, whatever the
\* order in which the calls come back.
NoLostUpdate ==
    /\ Ids(appArchives) \cap deleted = {}
    /\ (added \ deleted) \subseteq Ids(appArchives)

\* C28: the detail modal opened through View shows the selected item, not
\* in edit mode, whatever was done in earlier openings; it is in edit mode
\* on opening only when opened through Edit.
OpensAsAsked ==
    [][(~detailOpen /\ detailOpen') =>
          /\ isEditMode' => initialEditMode'
          /\ ~initialEditMode' => (~isEditMode' /\ editedItem' = selectedItem')]_vars

\* C29: while no upload is pending, uploadProgress is 0 and no progress
\* timer of an earlier submit is left to fire; while one is pending,
\* uploadProgress is at most 90.
ProgressRestsAtZero ==
    /\ ~isUploading => (uploadProgress = 0 /\ timers = {})
    /\ isUploading => uploadProgress <= 90

\* C30: the form shows generated metadata only of the files that are
\* selected.
MetadataOfSelectedFiles ==
    metadataGenerated =>
        /\ formData.tags = Metadata(formFiles).tags
        /\ formData.description = Metadata(formFiles).description

====
